---------------------------- MODULE Spec2Model ----------------------------
(***************************************************************************)
(* Model of the historical NDVI reconstruction pipeline.                   *)
(*                                                                         *)
(* Part I models src/01_generate_historical_ndvi.js: the configuration,    *)
(* the image catalogue the script queries, the summer NDVI composite and   *)
(* the export loop followed by the preview layer.                          *)
(*                                                                         *)
(* Parts II to IV model the later stages of the pipeline, which the README *)
(* documents (02_harmonize_ndvi_time_series.py and                         *)
(* 03_classify_pseudo_corine.py) without their code being at hand: the     *)
(* harmonization model, the fusion of class probabilities and the          *)
(* enforcement of the minimum mapping unit, each as the design document    *)
(* specifies it.                                                           *)
(***************************************************************************)
EXTENDS Integers, Sequences, FiniteSets, TLC

\* The script: its configuration list, the catalogue it queries, its
\* position, the export tasks, the console, the map layers and the error
\* that ended it.
VARIABLES periods, catalog, pc, idx, tasks, log, layers, error

\* The harmonizer: percentiles of the reference and of the target, whether
\* the target's are finite, and the model derived from them.
VARIABLES refPct, tgtPct, tgtFinite, harmModel

\* The fusion engine: classifier probabilities, temporal prior, fusion
\* weight, and the fused result of one pixel.
VARIABLES pRf, pPrior, alpha, fused

\* The post-processor: the label raster, the iteration count, the position
\* and the cells flagged as residual.
VARIABLES labels, iter, mmuPc, residual

scriptVars == <<periods, catalog, pc, idx, tasks, log, layers, error>>
harmVars == <<refPct, tgtPct, tgtFinite, harmModel>>
fusionVars == <<pRf, pPrior, alpha, fused>>
mmuVars == <<labels, iter, mmuPc, residual>>

vars == <<scriptVars, harmVars, fusionVars, mmuVars>>

\* The stages a specification leaves out stay as they start.
ScriptIdle ==
  /\ periods = <<>> /\ catalog = <<>> /\ pc = "idle" /\ idx = 0
  /\ tasks = <<>> /\ log = <<>> /\ layers = <<>> /\ error = ""
HarmIdle ==
  /\ refPct = <<0, 0>> /\ tgtPct = <<0, 0>> /\ tgtFinite = TRUE
  /\ harmModel = <<>>
FusionIdle ==
  /\ pRf = <<>> /\ pPrior = <<>> /\ alpha = 0 /\ fused = <<>>
MmuIdle ==
  /\ labels = <<>> /\ iter = 0 /\ mmuPc = "idle" /\ residual = {}

(***************************************************************************)
(* Bounds of the model.                                                    *)
(***************************************************************************)
MaxPeriods == 2
MaxImages == 2

(***************************************************************************)
(* CONFIG (src/01_generate_historical_ndvi.js, lines 13-47).               *)
(***************************************************************************)
aoiAssetPath == "users/username/path/to/AOI"
outputAssetFolder == "users/username/path/to/assets"
startMonth == 6
startDay == 1
endMonth == 9
endDay == 1
scaleMss == 180
scaleTm == 120

\* The mask of a pixel without a value: band tuples and index fractions are
\* tuples, and so is the mask.
NoData == <<>>

\* Sensor tags a configuration entry may carry; "ETM" stands for any tag the
\* script does not know.
SensorTags == {"MSS", "TM", "ETM"}
Years == {1975, 1985}

\* The pixel grid of the model; AOI is the part of it inside the boundary.
Pixels == {1, 2, 3}
AOI == {1, 2}

CollectionIds == {"LANDSAT/LM02/C02/T1", "LANDSAT/LM03/C02/T1", "LANDSAT/LT05/C02/T1_TOA"}

\* Band names of each catalogue collection, in the order the pixel tuples of
\* the model store them (near infrared first, red second).
BandLayout(collectionId) ==
  IF collectionId = "LANDSAT/LT05/C02/T1_TOA" THEN <<"B4", "B3">> ELSE <<"B7", "B5">>

\* Acquisition dates of the catalogue: the first day of the 1975 window, a
\* day inside it, and its end day.
Dates == {<<1975, 6, 1>>, <<1975, 8, 31>>, <<1975, 9, 1>>}

\* Pixel contents of a catalogue image: per pixel either NoData (the image
\* does not cover the pixel) or the pair of band values.
Scenes ==
  { <<<<3, -1>>, <<-1, 3>>, NoData>>,
    <<<<1, 3>>, <<3, 1>>, <<3, 1>>>>,
    <<NoData, <<1, -1>>, <<3, 1>>>>,
    <<NoData, NoData, <<3, 1>>>> }

Images == [coll : CollectionIds, time : Dates, px : Scenes]

RECURSIVE SeqsUpTo(_, _)
SeqsUpTo(S, n) ==
  IF n = 0 THEN {<<>>}
  ELSE LET shorter == SeqsUpTo(S, n - 1)
       IN shorter \cup {Append(s, e) : s \in {t \in shorter : Len(t) = n - 1}, e \in S}

(***************************************************************************)
(* Arithmetic on index values.  A value is a fraction <<n, d>> in lowest   *)
(* terms with d > 0.                                                       *)
(***************************************************************************)
Abs(x) == IF x < 0 THEN -x ELSE x

RECURSIVE Gcd(_, _)
Gcd(a, b) == IF b = 0 THEN a ELSE Gcd(b, a % b)

Frac(n, d) ==
  LET g == Gcd(Abs(n), Abs(d))
      s == IF d < 0 THEN -1 ELSE 1
  IN <<(s * n) \div g, (s * d) \div g>>

FracLeq(a, b) == a[1] * b[2] <= b[1] * a[2]
FracLess(a, b) == a[1] * b[2] < b[1] * a[2]

\* ee.Image.divide returns 0 where the divisor is 0.
Divide(n, d) == IF d = 0 THEN <<0, 1>> ELSE Frac(n, d)

(***************************************************************************)
(* ee.Date.fromYMD and the comparison of dates.                            *)
(***************************************************************************)
FromYMD(y, m, d) == <<y, m, d>>

DateLess(a, b) ==
  \/ a[1] < b[1]
  \/ a[1] = b[1] /\ a[2] < b[2]
  \/ a[1] = b[1] /\ a[2] = b[2] /\ a[3] < b[3]

\* ee.ImageCollection(collectionId): the catalogue images of one collection,
\* in catalogue order.
ImageCollection(collectionId) ==
  SelectSeq(catalog, LAMBDA img : img.coll = collectionId)

\* filterDate(start, end): start inclusive, end exclusive.
FilterDate(col, start, end) ==
  SelectSeq(col, LAMBDA img : ~DateLess(img.time, start) /\ DateLess(img.time, end))

\* filterBounds(AOI): images whose footprint meets the boundary.
FilterBounds(col) ==
  SelectSeq(col, LAMBDA img : \E x \in AOI : img.px[x] # NoData)

\* img.clip(AOI): pixels outside the boundary are masked.
Clip(px) == [x \in Pixels |-> IF x \in AOI THEN px[x] ELSE NoData]

\* img.select(band) at one pixel of a catalogue image.
Select(img, px, band, x) ==
  LET layout == BandLayout(img.coll)
      k == CHOOSE j \in 1..Len(layout) : layout[j] = band
  IN px[x][k]

\* nir.subtract(red).divide(nir.add(red)) at one pixel.
Ndvi(nir, red) == Divide(nir - red, nir + red)

\* The function mapped over the collection (lines 66-75).
NdviImage(img, nirBand, redBand) ==
  LET clipped == Clip(img.px)
  IN [time |-> img.time,
      ndvi |-> [x \in Pixels |->
                 IF clipped[x] = NoData THEN NoData
                 ELSE Ndvi(Select(img, clipped, nirBand, x),
                           Select(img, clipped, redBand, x))]]

makeNdviCollection(year, collectionId, nirBand, redBand) ==
  LET start == FromYMD(year, startMonth, startDay)
      end == FromYMD(year, endMonth, endDay)
      col == FilterBounds(FilterDate(ImageCollection(collectionId), start, end))
  IN [k \in 1..Len(col) |-> NdviImage(col[k], nirBand, redBand)]

\* A variant of SensorCollection that leaves the Landsat 3 collection out of
\* the MSS group.
SensorCollectionLandsat2Only(year, sensor) ==
  IF sensor = "MSS"
  THEN <<>> \o makeNdviCollection(year, "LANDSAT/LM02/C02/T1", "B7", "B5")
  ELSE makeNdviCollection(year, "LANDSAT/LT05/C02/T1_TOA", "B4", "B3")

\* The collection yearlyNdviComposite builds for a known sensor (lines 84-91).
SensorCollection(year, sensor) ==
  IF sensor = "MSS"
  THEN (<<>> \o makeNdviCollection(year, "LANDSAT/LM02/C02/T1", "B7", "B5"))
       \o makeNdviCollection(year, "LANDSAT/LM03/C02/T1", "B7", "B5")
  ELSE makeNdviCollection(year, "LANDSAT/LT05/C02/T1_TOA", "B4", "B3")

\* Images of col that attain the greatest NDVI at pixel x.
Best(col, x) ==
  {k \in 1..Len(col) :
     /\ col[k].ndvi[x] # NoData
     /\ \A j \in 1..Len(col) :
          col[j].ndvi[x] # NoData => FracLeq(col[j].ndvi[x], col[k].ndvi[x])}

\* A variant of QualityMosaic that lets any image covering a pixel supply it,
\* whatever its NDVI.
QualityMosaicAnyCovering(col) ==
  LET covering(x) == {k \in 1..Len(col) : col[k].ndvi[x] # NoData}
      picks == {p \in [Pixels -> 0..Len(col)] :
                  \A x \in Pixels :
                    IF covering(x) = {} THEN p[x] = 0 ELSE p[x] \in covering(x)}
  IN {Clip([x \in Pixels |-> IF p[x] = 0 THEN NoData ELSE col[p[x]].ndvi[x]]) :
        p \in picks}

\* qualityMosaic('NDVI').select('NDVI').clip(AOI): per pixel the NDVI of an
\* image with the greatest NDVI there.  Which of several such images
\* supplies the pixel is not specified by the library, so every choice is an
\* outcome.  A pixel no image covers, and every pixel of the mosaic of an
\* empty collection, is NoData.
QualityMosaic(col) ==
  LET picks == {p \in [Pixels -> 0..Len(col)] :
                  \A x \in Pixels :
                    IF Best(col, x) = {} THEN p[x] = 0 ELSE p[x] \in Best(col, x)}
  IN {Clip([x \in Pixels |-> IF p[x] = 0 THEN NoData ELSE col[p[x]].ndvi[x]]) :
        p \in picks}

KnownSensor(sensor) == sensor \in {"MSS", "TM"}

\* The composites yearlyNdviComposite may return for a known sensor.
yearlyNdviComposite(year, sensor) ==
  QualityMosaic(SensorCollection(year, sensor))

(***************************************************************************)
(* exportToAsset (lines 103-118).  Strings are sequences of tokens; a      *)
(* number joins a string as its decimal digits.                            *)
(***************************************************************************)
DigitChar(d) == <<"0", "1", "2", "3", "4", "5", "6", "7", "8", "9">>[d + 1]

RECURSIVE Digits(_)
Digits(n) ==
  IF n < 10 THEN <<DigitChar(n)>> ELSE Append(Digits(n \div 10), DigitChar(n % 10))

ExportScale(sensor) == IF sensor = "MSS" THEN scaleMss ELSE scaleTm

ExportName(year) == <<"NDVI_SUMMER_">> \o Digits(year) \o <<"_clip">>

ExportTask(img, year, sensor) ==
  [image |-> img,
   description |-> ExportName(year),
   assetId |-> <<outputAssetFolder, "/">> \o ExportName(year),
   region |-> AOI,
   scale |-> ExportScale(sensor)]

ExportMessage(year, sensor) ==
  <<"Export task created for ">> \o Digits(year) \o <<" (", sensor, ") at ">>
    \o Digits(ExportScale(sensor)) \o <<"m resolution.">>

(***************************************************************************)
(* The run of the script (lines 122-134).                                  *)
(***************************************************************************)
Period == [year : Years, sensor : SensorTags]

\* Catalogues of the runs that vary the configuration.
RunCatalogs ==
  { <<>>,
    << [coll |-> "LANDSAT/LM02/C02/T1", time |-> <<1975, 8, 31>>,
        px |-> <<<<3, 1>>, <<1, 3>>, NoData>>],
       [coll |-> "LANDSAT/LT05/C02/T1_TOA", time |-> <<1975, 6, 1>>,
        px |-> <<<<1, 3>>, <<3, 1>>, <<3, 1>>>>] >> }

Init ==
  /\ \/ /\ periods \in SeqsUpTo(Period, MaxPeriods)
        /\ catalog \in RunCatalogs
     \/ /\ periods \in {<<p>> : p \in [year : {1975}, sensor : {"MSS", "TM"}]}
        /\ catalog \in SeqsUpTo(Images, MaxImages)
  /\ pc = "forEach"
  /\ idx = 1
  /\ tasks = <<>>
  /\ log = <<<<"Starting NDVI Composite Process...">>>>
  /\ layers = <<>>
  /\ error = ""
  /\ HarmIdle /\ FusionIdle /\ MmuIdle

\* One call of the forEach callback on a known sensor.
ForEachExport ==
  /\ pc = "forEach"
  /\ idx <= Len(periods)
  /\ KnownSensor(periods[idx].sensor)
  /\ \E ndvi \in yearlyNdviComposite(periods[idx].year, periods[idx].sensor) :
       tasks' = Append(tasks, ExportTask(ndvi, periods[idx].year, periods[idx].sensor))
  /\ log' = Append(log, ExportMessage(periods[idx].year, periods[idx].sensor))
  /\ idx' = idx + 1
  /\ UNCHANGED <<periods, catalog, pc, layers, error>>
  /\ UNCHANGED <<harmVars, fusionVars, mmuVars>>

\* One call of the forEach callback on an unknown sensor: the throw of line
\* 93 ends the script.
ForEachThrow ==
  /\ pc = "forEach"
  /\ idx <= Len(periods)
  /\ ~KnownSensor(periods[idx].sensor)
  /\ pc' = "failed"
  /\ error' = "Unknown sensor type"
  /\ UNCHANGED <<periods, catalog, idx, tasks, log, layers>>
  /\ UNCHANGED <<harmVars, fusionVars, mmuVars>>

\* A variant of Preview that also exports the composite it previews.
PreviewExporting ==
  /\ pc = "forEach"
  /\ idx = Len(periods) + 1
  /\ periods # <<>>
  /\ LET lastRun == periods[Len(periods)]
     IN \E ndvi \in yearlyNdviComposite(lastRun.year, lastRun.sensor) :
          /\ layers' = Append(layers,
                              [image |-> ndvi,
                               name |-> <<"Preview: NDVI ">> \o Digits(lastRun.year)])
          /\ tasks' = Append(tasks, ExportTask(ndvi, lastRun.year, lastRun.sensor))
  /\ pc' = "done"
  /\ UNCHANGED <<periods, catalog, idx, log, error>>
  /\ UNCHANGED <<harmVars, fusionVars, mmuVars>>

\* Lines 130-134 on a non-empty list: the preview layer of the last period.
Preview ==
  /\ pc = "forEach"
  /\ idx = Len(periods) + 1
  /\ periods # <<>>
  /\ LET lastRun == periods[Len(periods)]
     IN \E ndvi \in yearlyNdviComposite(lastRun.year, lastRun.sensor) :
          layers' = Append(layers,
                           [image |-> ndvi,
                            name |-> <<"Preview: NDVI ">> \o Digits(lastRun.year)])
  /\ pc' = "done"
  /\ UNCHANGED <<periods, catalog, idx, tasks, log, error>>
  /\ UNCHANGED <<harmVars, fusionVars, mmuVars>>

\* Lines 130-132 on an empty list: lastRun is undefined and reading its year
\* is a TypeError.
PreviewEmpty ==
  /\ pc = "forEach"
  /\ idx = Len(periods) + 1
  /\ periods = <<>>
  /\ pc' = "failed"
  /\ error' = "TypeError"
  /\ UNCHANGED <<periods, catalog, idx, tasks, log, layers>>
  /\ UNCHANGED <<harmVars, fusionVars, mmuVars>>

Next == ForEachExport \/ ForEachThrow \/ Preview \/ PreviewEmpty

Spec == Init /\ [][Next]_vars

(***************************************************************************)
(* Properties of the script.                                               *)
(***************************************************************************)
\* The seasonal window of a year, from CONFIG.summer: 1 June up to, and not
\* including, 1 September.
InWindow(t, year) ==
  /\ t[1] = year
  /\ (t[2] > 6 \/ (t[2] = 6 /\ t[3] >= 1))
  /\ (t[2] < 9 \/ (t[2] = 9 /\ t[3] < 1))

GroupCollections(sensor) ==
  IF sensor = "MSS" THEN {"LANDSAT/LM02/C02/T1", "LANDSAT/LM03/C02/T1"}
  ELSE {"LANDSAT/LT05/C02/T1_TOA"}

\* Catalogue positions of the observations of a period that cover pixel x.
Covering(year, sensor, x) ==
  {j \in 1..Len(catalog) :
     /\ catalog[j].coll \in GroupCollections(sensor)
     /\ InWindow(catalog[j].time, year)
     /\ catalog[j].px[x] # NoData}

\* The index of catalogue image j at pixel x: (NIR - RED) / (NIR + RED).
IndexAt(j, x) == Ndvi(catalog[j].px[x][1], catalog[j].px[x][2])

Greatest(year, sensor, x) ==
  {j \in Covering(year, sensor, x) :
     \A o \in Covering(year, sensor, x) : FracLeq(IndexAt(o, x), IndexAt(j, x))}

Earliest(S) == {j \in S : \A o \in S : ~DateLess(catalog[o].time, catalog[j].time)}

\* C1: every exported composite holds, at every pixel of the boundary that
\* some observation of its period covers inside the seasonal window, the
\* greatest NDVI among those observations, Landsat 2 and Landsat 3 pooled
\* for MSS.
C1_CompositeIsMax ==
  \A k \in 1..Len(tasks) : \A x \in AOI :
    LET obs == Covering(periods[k].year, periods[k].sensor, x)
    IN obs # {} =>
         /\ \E j \in obs : tasks[k].image[x] = IndexAt(j, x)
         /\ \A j \in obs : FracLeq(IndexAt(j, x), tasks[k].image[x])

\* An MSS composite whose value at a pixel comes from a Landsat 3 image that
\* beats a Landsat 2 image covering the same pixel.
C1_Witness ==
  /\ Len(tasks) = 1
  /\ periods[1].sensor = "MSS"
  /\ \E x \in AOI : \E a, b \in Covering(periods[1].year, "MSS", x) :
       /\ catalog[a].coll = "LANDSAT/LM02/C02/T1"
       /\ catalog[b].coll = "LANDSAT/LM03/C02/T1"
       /\ FracLess(IndexAt(a, x), IndexAt(b, x))
       /\ tasks[1].image[x] = IndexAt(b, x)

\* C2: every pixel of every exported composite is NoData or lies in [-1, 1].
C2_CompositeInRange ==
  \A k \in 1..Len(tasks) : \A x \in Pixels :
    tasks[k].image[x] # NoData =>
      /\ FracLeq(<<-1, 1>>, tasks[k].image[x])
      /\ FracLeq(tasks[k].image[x], <<1, 1>>)

\* C3: when the run raises the unknown-sensor error, no export task has been
\* created.
C3_FailFast ==
  (pc = "failed" /\ error = "Unknown sensor type") => tasks = <<>>

EmptyPeriod(p) ==
  \A j \in 1..Len(catalog) :
    ~(/\ catalog[j].coll \in GroupCollections(p.sensor)
      /\ InWindow(catalog[j].time, p.year)
      /\ \E x \in AOI : catalog[j].px[x] # NoData)

\* A message other than the start message and the export messages.
Warned ==
  \E m \in 1..Len(log) :
    log[m][1] \notin {"Starting NDVI Composite Process...", "Export task created for "}

\* C5: a pixel no observation covers is NoData, and a period with an empty
\* collection gets an all-NoData composite with a warning while the run goes
\* on to the remaining periods.
C5_EmptyNotFatal ==
  \A k \in 1..Len(tasks) :
    /\ \A x \in Pixels :
         Covering(periods[k].year, periods[k].sensor, x) = {}
           => tasks[k].image[x] = NoData
    /\ EmptyPeriod(periods[k]) =>
         /\ \A x \in Pixels : tasks[k].image[x] = NoData
         /\ Warned
         /\ idx > k

\* C6: the exports of two distinct periods target distinct asset ids.
C6_DistinctAssets ==
  \A j, k \in 1..Len(tasks) :
    periods[j] # periods[k] => tasks[j].assetId # tasks[k].assetId

\* Every entry of the list carries a known sensor.
AllKnown == \A k \in 1..Len(periods) : KnownSensor(periods[k].sensor)

\* C10: over a list of known sensors the run creates one export task per
\* entry, in list order and at the resolution of the entry's sensor, and the
\* preview adds no task and changes none.
C10_OneTaskPerEntry ==
  AllKnown =>
    /\ pc = "forEach" => Len(tasks) = idx - 1
    /\ pc = "done" => Len(tasks) = Len(periods) /\ Len(layers) = 1
    /\ \A k \in 1..Len(tasks) :
         /\ tasks[k].description = <<"NDVI_SUMMER_">> \o Digits(periods[k].year) \o <<"_clip">>
         /\ periods[k].sensor = "MSS" => tasks[k].scale = 180
         /\ periods[k].sensor = "TM" => tasks[k].scale = 120
         /\ tasks[k].image \in yearlyNdviComposite(periods[k].year, periods[k].sensor)

\* A finished run over an MSS entry followed by a TM entry.
C10_Witness ==
  /\ pc = "done"
  /\ Len(periods) = 2
  /\ periods[1].sensor = "MSS"
  /\ periods[2].sensor = "TM"
  /\ Len(tasks) = 2
  /\ Len(layers) = 1

(***************************************************************************)
(* Part II.  The harmonization model (design document, section 4.2).       *)
(* Percentiles are integers in units of one hundredth of the index.        *)
(***************************************************************************)
FracMul(a, b) == Frac(a[1] * b[1], a[2] * b[2])
FracSub(a, b) == Frac(a[1] * b[2] - b[1] * a[2], a[2] * b[2])
FracAdd(a, b) == Frac(a[1] * b[2] + b[1] * a[2], a[2] * b[2])

\* Percentile values of the model and the (P2, P98) pairs over them.
PercentileValues == {-20, 0, 10, 60}
PercentilePairs == {p \in PercentileValues \X PercentileValues : p[1] <= p[2]}

\* The target's P98 - P2 spread is zero or not a finite number.
Degenerate(tgt, finite) == ~finite \/ tgt[2] - tgt[1] = 0

\* scale = (P98_ref - P2_ref) / (P98_target - P2_target)
Scale(ref, tgt) == Frac(ref[2] - ref[1], tgt[2] - tgt[1])

\* offset = P2_ref - P2_target * scale
Offset(ref, tgt) == FracSub(<<ref[1], 1>>, FracMul(<<tgt[1], 1>>, Scale(ref, tgt)))

\* The model the Harmonizer derives: the identity with a warning in the
\* degenerate case, the affine map otherwise.  divisor records what the
\* derivation divided by (1 where it did not divide).
HarmonizationModel(ref, tgt, finite) ==
  IF Degenerate(tgt, finite)
  THEN [scale |-> <<1, 1>>, offset |-> <<0, 1>>, warning |-> TRUE, divisor |-> 1]
  ELSE [scale |-> Scale(ref, tgt), offset |-> Offset(ref, tgt), warning |-> FALSE,
        divisor |-> tgt[2] - tgt[1]]

HarmInit ==
  /\ refPct \in PercentilePairs
  /\ tgtPct \in PercentilePairs
  /\ tgtFinite \in BOOLEAN
  /\ harmModel = <<>>
  /\ ScriptIdle /\ FusionIdle /\ MmuIdle

\* The fallback of the degenerate case.
DeriveFallback ==
  /\ harmModel = <<>>
  /\ Degenerate(tgtPct, tgtFinite)
  /\ harmModel' = HarmonizationModel(refPct, tgtPct, tgtFinite)
  /\ UNCHANGED <<refPct, tgtPct, tgtFinite, scriptVars, fusionVars, mmuVars>>

\* The derivation of the affine map.
DeriveAffine ==
  /\ harmModel = <<>>
  /\ ~Degenerate(tgtPct, tgtFinite)
  /\ harmModel' = HarmonizationModel(refPct, tgtPct, tgtFinite)
  /\ UNCHANGED <<refPct, tgtPct, tgtFinite, scriptVars, fusionVars, mmuVars>>

HarmNext == DeriveFallback \/ DeriveAffine

HarmSpec == HarmInit /\ [][HarmNext]_vars

\* C8: the derivation never divides by zero; a zero or non-finite target
\* spread gives the identity transform with a warning; in every other case,
\* a reference whose P98 equals its P2 included, the scale is strictly
\* positive.
C8_ScalePositive ==
  harmModel # <<>> =>
    /\ harmModel.divisor # 0
    /\ Degenerate(tgtPct, tgtFinite) =>
         /\ harmModel.scale = <<1, 1>>
         /\ harmModel.offset = <<0, 1>>
         /\ harmModel.warning
    /\ ~Degenerate(tgtPct, tgtFinite) => FracLess(<<0, 1>>, harmModel.scale)

(***************************************************************************)
(* Part III.  The fusion of class probabilities (design document, section  *)
(* 4.5).  Probabilities are fractions; the classifier's and the prior's    *)
(* are multiples of 1 / ProbUnits, the weight a multiple of                *)
(* 1 / AlphaSteps.                                                         *)
(***************************************************************************)
NumClasses == 3
ProbUnits == 4
AlphaSteps == 2

Classes == 1..NumClasses

RECURSIVE SumUpTo(_, _)
SumUpTo(f, n) == IF n = 0 THEN 0 ELSE f[n] + SumUpTo(f, n - 1)

RECURSIVE FracSumUpTo(_, _)
FracSumUpTo(v, n) == IF n = 0 THEN <<0, 1>> ELSE FracAdd(v[n], FracSumUpTo(v, n - 1))

FracDiv(a, b) == Frac(a[1] * b[2], a[2] * b[1])

\* Classifier outputs: they sum to 1.
ClassifierOutputs ==
  {f \in [Classes -> 0..ProbUnits] : SumUpTo(f, NumClasses) = ProbUnits}

\* Temporal priors: non-negative, their sum within one unit of 1 (the drift
\* of the trend model).
TemporalPriors ==
  {f \in [Classes -> 0..ProbUnits] :
     SumUpTo(f, NumClasses) \in (ProbUnits - 1)..(ProbUnits + 1)}

\* The prior of a pixel the trend model does not cover.
Absent == <<>>

AsProbability(f) == [c \in Classes |-> Frac(f[c], ProbUnits)]

\* P_final = alpha * P_rf + (1 - alpha) * P_prior, per class.
Blend(rf, prior, a) ==
  [c \in Classes |->
     FracAdd(FracMul(Frac(a, AlphaSteps), Frac(rf[c], ProbUnits)),
             FracMul(Frac(AlphaSteps - a, AlphaSteps), Frac(prior[c], ProbUnits)))]

\* A variant of Renormalize that leaves the vector as it is.
RenormalizeSkipped(v) == v

\* The renormalization after fusion: every class divided by the sum.
Renormalize(v) == [c \in Classes |-> FracDiv(v[c], FracSumUpTo(v, NumClasses))]

\* argmax over the classes in ascending order; a later class replaces the
\* best only when strictly greater.
RECURSIVE ArgMaxUpTo(_, _)
ArgMaxUpTo(v, n) ==
  IF n = 1 THEN 1
  ELSE LET best == ArgMaxUpTo(v, n - 1)
       IN IF FracLess(v[best], v[n]) THEN n ELSE best

\* The fused record of one pixel.
Fuse(rf, prior, a) ==
  LET p == IF prior = Absent THEN Renormalize(AsProbability(rf))
           ELSE Renormalize(Blend(rf, prior, a))
      label == ArgMaxUpTo(p, NumClasses)
  IN [p |-> p, label |-> label, confidence |-> p[label], warning |-> prior = Absent]

FusionInit ==
  /\ pRf \in ClassifierOutputs
  /\ pPrior \in TemporalPriors \cup {Absent}
  /\ alpha \in 0..AlphaSteps
  /\ fused = <<>>
  /\ ScriptIdle /\ HarmIdle /\ MmuIdle

\* Fusion of a pixel that has a prior.
FuseWithPrior ==
  /\ fused = <<>>
  /\ pPrior # Absent
  /\ fused' = Fuse(pRf, pPrior, alpha)
  /\ UNCHANGED <<pRf, pPrior, alpha, scriptVars, harmVars, mmuVars>>

\* Fusion of a pixel without a prior: the classifier's probabilities alone.
FuseClassifierOnly ==
  /\ fused = <<>>
  /\ pPrior = Absent
  /\ fused' = Fuse(pRf, pPrior, alpha)
  /\ UNCHANGED <<pRf, pPrior, alpha, scriptVars, harmVars, mmuVars>>

FusionNext == FuseWithPrior \/ FuseClassifierOnly

FusionSpec == FusionInit /\ [][FusionNext]_vars

\* C9: the fused vector is non-negative and sums to 1, with the prior (the
\* weighted blend, renormalized) and without it (the classifier's vector),
\* and the label is the most probable class, the lowest of those tied.
C9_FusedIsDistribution ==
  fused # <<>> =>
    /\ \A c \in Classes : FracLeq(<<0, 1>>, fused.p[c])
    /\ FracSumUpTo(fused.p, NumClasses) = <<1, 1>>
    /\ pPrior = Absent => \A c \in Classes : fused.p[c] = Frac(pRf[c], ProbUnits)
    /\ pPrior # Absent =>
         \A c, d \in Classes :
           LET mix(e) == alpha * pRf[e] + (AlphaSteps - alpha) * pPrior[e]
           IN fused.p[c][1] * fused.p[d][2] * mix(d)
                = fused.p[d][1] * fused.p[c][2] * mix(c)
    /\ \A c \in Classes : FracLeq(fused.p[c], fused.p[fused.label])
    /\ \A c \in Classes : fused.p[c] = fused.p[fused.label] => fused.label <= c

\* A pixel fused with a drifted prior under a weight strictly between 0 and
\* 1, two classes tied at the greatest probability.
C9_Witness ==
  /\ fused # <<>>
  /\ pPrior # Absent
  /\ SumUpTo(pPrior, NumClasses) # ProbUnits
  /\ alpha \in 1..(AlphaSteps - 1)
  /\ \E c \in Classes : c > fused.label /\ fused.p[c] = fused.p[fused.label]

(***************************************************************************)
(* Part IV.  The enforcement of the minimum mapping unit (design document, *)
(* section 4.6), on a 3 x 3 label raster with 4-connectivity and the       *)
(* smoothing pass switched off.                                            *)
(***************************************************************************)
\* The threshold M and the iteration bound of the configuration.
MinimumMappingUnit == 3
MaxIterations == 3

Cells == (1..3) \X (1..3)
LabelClasses == {1, 2, 3}

\* 4-connectivity: two cells that share an edge.
Adjacent(a, b) ==
  \/ a[1] = b[1] /\ (a[2] = b[2] + 1 \/ a[2] = b[2] - 1)
  \/ a[2] = b[2] /\ (a[1] = b[1] + 1 \/ a[1] = b[1] - 1)

\* Connected-component labelling: the maximal connected region of one class
\* around a cell.
RECURSIVE Grow(_, _, _)
Grow(grid, S, frontier) ==
  LET more == {n \in Cells \ S : \E c \in frontier : Adjacent(n, c) /\ grid[n] = grid[c]}
  IN IF more = {} THEN S ELSE Grow(grid, S \cup more, more)

Component(grid, c) == Grow(grid, {c}, {c})

Components(grid) == {Component(grid, c) : c \in Cells}

SubThreshold(grid) == {K \in Components(grid) : Cardinality(K) < MinimumMappingUnit}

\* The neighbouring pixels of a component, outside it.
Border(K) == {n \in Cells \ K : \E c \in K : Adjacent(n, c)}

\* The most frequent class among the neighbouring pixels, the lowest class
\* identifier among those tied.
MajorityClass(grid, K) ==
  LET border == Border(K)
      count == [cls \in LabelClasses |-> Cardinality({n \in border : grid[n] = cls})]
  IN CHOOSE cls \in LabelClasses :
       \A o \in LabelClasses :
         count[o] < count[cls] \/ (count[o] = count[cls] /\ cls <= o)

\* One pass: every component below the threshold takes the majority class of
\* its neighbours.
Reassign(grid) ==
  LET small == SubThreshold(grid)
      target == [K \in small |-> MajorityClass(grid, K)]
  IN [c \in Cells |->
        IF \E K \in small : c \in K
        THEN target[CHOOSE K \in small : c \in K]
        ELSE grid[c]]

MmuInit ==
  /\ labels \in [Cells -> LabelClasses]
  /\ iter = 0
  /\ mmuPc = "run"
  /\ residual = {}
  /\ ScriptIdle /\ HarmIdle /\ FusionIdle

\* The loop goes on while a component is below the threshold and the bound
\* allows another pass.
LoopContinues == SubThreshold(labels) # {} /\ iter < MaxIterations

\* The loop ends without a component below the threshold.
LoopSatisfied == SubThreshold(labels) = {}

\* The loop ends at the bound with components below the threshold left.
LoopExhausted == SubThreshold(labels) # {} /\ iter = MaxIterations

\* A variant of MmuReassign that does not count its pass.
MmuReassignUncounted ==
  /\ mmuPc = "run"
  /\ LoopContinues
  /\ labels' = Reassign(labels)
  /\ UNCHANGED <<iter, mmuPc, residual, scriptVars, harmVars, fusionVars>>

\* A labelling and reassignment pass, while the bound allows one.
MmuReassign ==
  /\ mmuPc = "run"
  /\ LoopContinues
  /\ labels' = Reassign(labels)
  /\ iter' = iter + 1
  /\ UNCHANGED <<mmuPc, residual, scriptVars, harmVars, fusionVars>>

\* No component is below the threshold: the result is returned unflagged.
MmuFinish ==
  /\ mmuPc = "run"
  /\ LoopSatisfied
  /\ mmuPc' = "done"
  /\ UNCHANGED <<labels, iter, residual, scriptVars, harmVars, fusionVars>>

\* The bound is reached: the result is returned with its components below
\* the threshold flagged as residual.
MmuStopAtBound ==
  /\ mmuPc = "run"
  /\ LoopExhausted
  /\ mmuPc' = "done"
  /\ residual' = UNION SubThreshold(labels)
  /\ UNCHANGED <<labels, iter, scriptVars, harmVars, fusionVars>>

MmuNext == MmuReassign \/ MmuFinish \/ MmuStopAtBound

\* The post-processor runs to completion once started.
MmuSpec == MmuInit /\ [][MmuNext]_vars /\ WF_vars(MmuNext)

\* C7: the enforcement terminates within the iteration bound (it is never
\* stuck before its end, and every step ends it or uses up one of the
\* bounded iterations), and at its end every connected region of one class
\* has at least M pixels or is flagged as residual.
C7_MmuTerminates ==
  /\ [](mmuPc = "done" \/ LoopContinues \/ LoopSatisfied \/ LoopExhausted)
  /\ [](iter <= MaxIterations)
  /\ [][mmuPc' = "done" \/ iter' = iter + 1]_vars
  /\ [](mmuPc = "done" =>
          \A K \in Components(labels) :
            Cardinality(K) >= MinimumMappingUnit \/ K \subseteq residual)

\* A run that stopped at the bound with regions still below the threshold.
C7_Witness ==
  /\ mmuPc = "done"
  /\ iter = MaxIterations
  /\ residual # {}

=============================================================================
